---------------------------- MODULE Spec2Model ----------------------------
(***************************************************************************)
(* Model of scripts/streamline.py: the one-pass transform that reduces a   *)
(* session transcript (JSON lines) to assistant / tool_use / result / user *)
(* records.                                                                *)
(*                                                                         *)
(* Python values are modelled as tagged records so that isinstance(),      *)
(* truthiness, str() and slicing are computed as Python computes them.     *)
(* A str is a TLA+ string; a list is a sequence; a dict is a sequence of   *)
(* <<key, value>> pairs in insertion order (Python dicts are ordered).     *)
(***************************************************************************)
EXTENDS Integers, Sequences, FiniteSets, TLC

(***************************************************************************)
(* Bounds of the model.                                                    *)
(***************************************************************************)
\* number of input lines read in one pass
MaxLines == 3
\* number of content blocks in the multi-block records
MaxBlocks == 2

(***************************************************************************)
(* Python values.                                                          *)
(***************************************************************************)
None == [py |-> "NoneType"]
Str(s) == [py |-> "str", v |-> s]
Bool(b) == [py |-> "bool", v |-> b]
Num(n) == [py |-> "int", v |-> n]
List(q) == [py |-> "list", v |-> q]
Dict(q) == [py |-> "dict", v |-> q]

isinstance(x, t) == x.py = t

Min(a, b) == IF a < b THEN a ELSE b

\* bool(x): Python truthiness
Truthy(x) ==
    CASE x.py = "NoneType" -> FALSE
      [] x.py = "bool" -> x.v
      [] x.py = "int" -> x.v # 0
      [] x.py = "str" -> x.v # ""
      [] x.py = "list" -> x.v # <<>>
      [] x.py = "dict" -> x.v # <<>>

\* len(x) for the sized types
PyLen(x) == Len(x.v)

\* x[:n] for str and list
SliceTo(x, n) == [py |-> x.py, v |-> SubSeq(x.v, 1, Min(n, Len(x.v)))]

\* (variant) the right operand lost
ConcatLeftOnly(a, b) == a

\* a + b for two str
Concat(a, b) == Str(a.v \o b.v)

\* repr(x); for a str, of text without quotes, backslashes or control characters
RECURSIVE PyRepr(_)
RECURSIVE ReprList(_)
RECURSIVE ReprItems(_)
PyRepr(x) ==
    CASE x.py = "str" -> "'" \o x.v \o "'"
      [] x.py = "int" -> ToString(x.v)
      [] x.py = "bool" -> (IF x.v THEN "True" ELSE "False")
      [] x.py = "NoneType" -> "None"
      [] x.py = "list" -> "[" \o ReprList(x.v) \o "]"
      [] x.py = "dict" -> "{" \o ReprItems(x.v) \o "}"
ReprList(q) ==
    IF q = <<>> THEN ""
    ELSE PyRepr(Head(q)) \o (IF Len(q) > 1 THEN ", " ELSE "") \o ReprList(Tail(q))
ReprItems(q) ==
    IF q = <<>> THEN ""
    ELSE "'" \o Head(q)[1] \o "': " \o PyRepr(Head(q)[2])
         \o (IF Len(q) > 1 THEN ", " ELSE "") \o ReprItems(Tail(q))

\* str(x)
PyStr(x) == IF x.py = "str" THEN x ELSE Str(PyRepr(x))

\* characters removed by str.strip(), of those a TLA+ string can hold
Whitespace == {" ", "\t", "\n", "\r", "\f"}

RECURSIVE LStrip(_)
LStrip(s) ==
    IF s # "" /\ SubSeq(s, 1, 1) \in Whitespace
    THEN LStrip(SubSeq(s, 2, Len(s)))
    ELSE s

RECURSIVE RStrip(_)
RStrip(s) ==
    IF s # "" /\ SubSeq(s, Len(s), Len(s)) \in Whitespace
    THEN RStrip(SubSeq(s, 1, Len(s) - 1))
    ELSE s

\* (variant) only the left side trimmed
StripLeftOnly(x) == Str(LStrip(x.v))

\* x.strip()
Strip(x) == Str(RStrip(LStrip(x.v)))

\* name.startswith(prefix)
StartsWith(x, prefix) ==
    /\ Len(x.v) >= Len(prefix)
    /\ SubSeq(x.v, 1, Len(prefix)) = prefix

\* "".join(parts)
RECURSIVE Join(_)
Join(parts) ==
    IF parts = <<>> THEN "" ELSE Head(parts).v \o Join(Tail(parts))

\* the elements a for-loop over x visits
Iter(x) ==
    CASE x.py = "list" -> x.v
      [] x.py = "str" -> [i \in 1..Len(x.v) |-> Str(SubSeq(x.v, i, i))]
      [] x.py = "dict" -> [i \in 1..Len(x.v) |-> Str(x.v[i][1])]

(***************************************************************************)
(* dict operations, on a sequence of <<key, value>> pairs.                 *)
(***************************************************************************)
KeyIndex(items, k) ==
    IF \E i \in 1..Len(items) : items[i][1] = k
    THEN CHOOSE i \in 1..Len(items) : items[i][1] = k
    ELSE 0

\* items[k] = val : a present key keeps its position
SetItem(items, k, val) ==
    IF KeyIndex(items, k) = 0
    THEN Append(items, <<k, val>>)
    ELSE [items EXCEPT ![KeyIndex(items, k)] = <<k, val>>]

\* k in d
Has(d, k) == KeyIndex(d.v, k) # 0

\* d.get(k, default)
Get(d, k, default) ==
    IF Has(d, k) THEN d.v[KeyIndex(d.v, k)][2] ELSE default

\* d[k] = val
Put(d, k, val) == Dict(SetItem(d.v, k, val))

\* {**a, **b}
RECURSIVE Merge(_, _)
Merge(a, b) ==
    IF b.v = <<>> THEN a
    ELSE Merge(Put(a, Head(b.v)[1], Head(b.v)[2]), Dict(Tail(b.v)))

Keys(d) == {d.v[i][1] : i \in 1..Len(d.v)}

(***************************************************************************)
(* json.dumps(x, separators=(",", ":")) : compact serialisation.           *)
(* Text is ASCII: the escapes are those of the quote, the backslash and   *)
(* the control characters a TLA+ string can hold.                          *)
(***************************************************************************)
EscapeChar(c) ==
    CASE c = "\"" -> "\\\""
      [] c = "\\" -> "\\\\"
      [] c = "\n" -> "\\n"
      [] c = "\r" -> "\\r"
      [] c = "\t" -> "\\t"
      [] c = "\f" -> "\\f"
      [] OTHER -> c

\* escapes every character of s (by halves, to keep the recursion shallow)
RECURSIVE Escape(_)
Escape(s) ==
    IF s = "" THEN ""
    ELSE IF Len(s) = 1 THEN EscapeChar(s)
    ELSE Escape(SubSeq(s, 1, Len(s) \div 2)) \o Escape(SubSeq(s, Len(s) \div 2 + 1, Len(s)))

Quote(s) == "\"" \o Escape(s) \o "\""

RECURSIVE JsonDumps(_)
RECURSIVE DumpList(_)
RECURSIVE DumpItems(_)
JsonDumps(x) ==
    CASE x.py = "NoneType" -> "null"
      [] x.py = "bool" -> (IF x.v THEN "true" ELSE "false")
      [] x.py = "int" -> ToString(x.v)
      [] x.py = "str" -> Quote(x.v)
      [] x.py = "list" -> "[" \o DumpList(x.v) \o "]"
      [] x.py = "dict" -> "{" \o DumpItems(x.v) \o "}"
DumpList(q) ==
    IF q = <<>> THEN ""
    ELSE JsonDumps(Head(q)) \o (IF Len(q) > 1 THEN "," ELSE "") \o DumpList(Tail(q))
DumpItems(q) ==
    IF q = <<>> THEN ""
    ELSE Quote(Head(q)[1]) \o ":" \o JsonDumps(Head(q)[2])
         \o (IF Len(q) > 1 THEN "," ELSE "") \o DumpItems(Tail(q))

(***************************************************************************)
(* extract_user_text(content)                                              *)
(***************************************************************************)
RECURSIVE text_parts(_)
text_parts(items) ==
    IF items = <<>> THEN <<>>
    ELSE LET item == Head(items)
             rest == text_parts(Tail(items))
         IN IF isinstance(item, "str") THEN <<item>> \o rest
            ELSE IF isinstance(item, "dict") /\ Get(item, "type", None) = Str("text")
                 THEN <<Get(item, "text", Str(""))>> \o rest
                 ELSE rest

\* (variant) the concatenation returned without trimming
extract_user_text_untrimmed(content) ==
    LET text == Str(Join(text_parts(Iter(content))))
    IN IF Truthy(text) THEN text ELSE None

extract_user_text(content) ==
    LET text == Strip(Str(Join(text_parts(Iter(content)))))
    IN IF Truthy(text) THEN text ELSE None

(***************************************************************************)
(* simplify_tool_use(tool_use)                                             *)
(***************************************************************************)
\* Bash: commands longer than this are cut and marked with "..."
CmdLimit == 200
\* Grep: pattern cut
PatternLimit == 100
\* TodoWrite: number of items kept, and cut of each item
TodoCount == 5
TodoLimit == 50
\* mcp__ tools: number of parameters kept, and cut of each value
ParamCount == 3
ParamLimit == 100
\* fallback: cut of the captured value
FallbackLimit == 200
\* (variant) the probe list with "type" in it
ProbeKeysWithType == <<"type", "file_path", "path", "query", "url", "id">>

\* fallback: keys probed, in this order
ProbeKeys == <<"file_path", "path", "query", "url", "id">>

\* (variant) the items kept whole
todo_items_uncut(todos) ==
    LET kept == SliceTo(todos, TodoCount).v
    IN List([i \in 1..Len(kept) |-> Get(kept[i], "content", Str(""))])

\* (variant) the items without content left out
todo_items_skip(todos) ==
    LET kept == SelectSeq(SliceTo(todos, TodoCount).v, LAMBDA t : Has(t, "content"))
    IN List([i \in 1..Len(kept) |-> SliceTo(Get(kept[i], "content", Str("")), TodoLimit)])

\* [t.get("content", "")[:50] for t in todos[:5]]
todo_items(todos) ==
    LET kept == SliceTo(todos, TodoCount).v
    IN List([i \in 1..Len(kept) |-> SliceTo(Get(kept[i], "content", Str("")), TodoLimit)])

\* {k: str(v)[:100] for k, v in list(inp.items())[:3]}
mcp_params(inp) ==
    LET kept == SubSeq(inp.v, 1, Min(ParamCount, Len(inp.v)))
    IN Dict([i \in 1..Len(kept) |-> <<kept[i][1], SliceTo(PyStr(kept[i][2]), ParamLimit)>>])

\* for key in [...]: if key in inp: result[key] = str(inp[key])[:200]; break
RECURSIVE fallback_probe(_, _, _)
fallback_probe(keys, inp, result) ==
    IF keys = <<>> THEN result
    ELSE IF Has(inp, Head(keys))
         THEN Put(result, Head(keys), SliceTo(PyStr(Get(inp, Head(keys), None)), FallbackLimit))
         ELSE fallback_probe(Tail(keys), inp, result)

simplify_tool_use(tool_use) ==
    LET name == Get(tool_use, "name", Str("unknown"))
        inp == Get(tool_use, "input", Dict(<<>>))
        tool_id == Get(tool_use, "id", Str(""))
        result == Dict(<< <<"tool", name>>, <<"id", tool_id>> >>)
    IN CASE name = Str("Read") -> Put(result, "target", Get(inp, "file_path", Str("")))
         [] name = Str("Edit") -> Put(result, "target", Get(inp, "file_path", Str("")))
         [] name = Str("Write") -> Put(result, "target", Get(inp, "file_path", Str("")))
         [] name = Str("Bash") ->
              LET cmd == Get(inp, "command", Str(""))
              IN Put(result, "cmd",
                     IF PyLen(cmd) > CmdLimit
                     THEN Concat(SliceTo(cmd, CmdLimit), Str("..."))
                     ELSE cmd)
         [] name = Str("Grep") ->
              LET r1 == Put(result, "pattern", SliceTo(Get(inp, "pattern", Str("")), PatternLimit))
              IN IF Truthy(Get(inp, "path", None))
                 THEN Put(r1, "path", Get(inp, "path", None))
                 ELSE r1
         [] name = Str("Glob") -> Put(result, "pattern", Get(inp, "pattern", Str("")))
         [] name = Str("Task") ->
              Put(Put(result, "desc", Get(inp, "description", Str(""))),
                  "agent", Get(inp, "subagent_type", Str("")))
         [] name = Str("TodoWrite") ->
              Put(result, "todos", todo_items(Get(inp, "todos", List(<<>>))))
         [] OTHER ->
              IF StartsWith(name, "mcp__")
              THEN Put(result, "params", mcp_params(inp))
              ELSE fallback_probe(ProbeKeys, inp, result)

(***************************************************************************)
(* process_tool_result(tool_result, tool_uses)                             *)
(***************************************************************************)
\* cut of the error text
ErrorLimit == 200

\* (variant) the error text taken whether or not the flag is set
process_tool_result_unflagged(tool_result, tool_uses) ==
    LET tool_id == Get(tool_result, "tool_use_id", Str(""))
        is_error == Get(tool_result, "is_error", Bool(FALSE))
        result == Dict(<< <<"id", tool_id>>, <<"ok", Bool(~Truthy(is_error))>> >>)
        content == Get(tool_result, "content", Str(""))
    IN IF isinstance(content, "str")
       THEN Put(result, "error", SliceTo(content, ErrorLimit))
       ELSE result

\* (variant) an empty error text where none can be taken
process_tool_result_blank(tool_result, tool_uses) ==
    LET tool_id == Get(tool_result, "tool_use_id", Str(""))
        is_error == Get(tool_result, "is_error", Bool(FALSE))
        result == Dict(<< <<"id", tool_id>>, <<"ok", Bool(~Truthy(is_error))>> >>)
        content == Get(tool_result, "content", Str(""))
    IN IF Truthy(is_error)
       THEN IF isinstance(content, "str")
            THEN Put(result, "error", SliceTo(content, ErrorLimit))
            ELSE IF isinstance(content, "list") /\ Truthy(content)
                 THEN LET first == content.v[1]
                      IN IF isinstance(first, "dict")
                         THEN Put(result, "error", SliceTo(Get(first, "text", Str("")), ErrorLimit))
                         ELSE IF isinstance(first, "str")
                              THEN Put(result, "error", SliceTo(first, ErrorLimit))
                              ELSE Put(result, "error", Str(""))
                 ELSE Put(result, "error", Str(""))
       ELSE result

process_tool_result(tool_result, tool_uses) ==
    LET tool_id == Get(tool_result, "tool_use_id", Str(""))
        is_error == Get(tool_result, "is_error", Bool(FALSE))
        result == Dict(<< <<"id", tool_id>>, <<"ok", Bool(~Truthy(is_error))>> >>)
        content == Get(tool_result, "content", Str(""))
    IN IF Truthy(is_error)
       THEN IF isinstance(content, "str")
            THEN Put(result, "error", SliceTo(content, ErrorLimit))
            ELSE IF isinstance(content, "list") /\ Truthy(content)
                 THEN LET first == content.v[1]
                      IN IF isinstance(first, "dict")
                         THEN Put(result, "error", SliceTo(Get(first, "text", Str("")), ErrorLimit))
                         ELSE IF isinstance(first, "str")
                              THEN Put(result, "error", SliceTo(first, ErrorLimit))
                              ELSE result
                 ELSE result
       ELSE result

(***************************************************************************)
(* process_assistant_message(content, tool_uses)                           *)
(* Returns the outputs and the registry as the loop leaves it.             *)
(***************************************************************************)
RECURSIVE assistant_loop(_, _, _)
assistant_loop(items, outputs, tool_uses) ==
    IF items = <<>> THEN [outputs |-> outputs, tool_uses |-> tool_uses]
    ELSE LET item == Head(items)
             item_type == Get(item, "type", None)
         IN IF ~isinstance(item, "dict")
            THEN assistant_loop(Tail(items), outputs, tool_uses)
            ELSE IF item_type = Str("text")
                 THEN LET text == Strip(Get(item, "text", Str("")))
                      IN IF Truthy(text)
                         THEN assistant_loop(Tail(items),
                                  Append(outputs, Dict(<< <<"type", Str("assistant")>>, <<"text", text>> >>)),
                                  tool_uses)
                         ELSE assistant_loop(Tail(items), outputs, tool_uses)
                 ELSE IF item_type = Str("tool_use")
                      THEN LET simplified == simplify_tool_use(item)
                           IN assistant_loop(Tail(items),
                                  Append(outputs, Merge(Dict(<< <<"type", Str("tool_use")>> >>), simplified)),
                                  SetItem(tool_uses, Get(item, "id", Str("")), simplified))
                      ELSE assistant_loop(Tail(items), outputs, tool_uses)

process_assistant_message(content, tool_uses) ==
    assistant_loop(Iter(content), <<>>, tool_uses)

(***************************************************************************)
(* process_user_message(content, tool_uses)                                *)
(***************************************************************************)
RECURSIVE result_loop(_, _, _)
result_loop(items, outputs, tool_uses) ==
    IF items = <<>> THEN outputs
    ELSE LET item == Head(items)
         IN IF isinstance(item, "dict") /\ Get(item, "type", None) = Str("tool_result")
            THEN result_loop(Tail(items),
                     Append(outputs, Merge(Dict(<< <<"type", Str("result")>> >>),
                                           process_tool_result(item, tool_uses))),
                     tool_uses)
            ELSE result_loop(Tail(items), outputs, tool_uses)

\* (variant) the text written after the results
process_user_message_text_last(content, tool_uses) ==
    LET user_text == extract_user_text(content)
    IN result_loop(Iter(content), <<>>, tool_uses)
       \o (IF Truthy(user_text)
           THEN << Dict(<< <<"type", Str("user")>>, <<"text", user_text>> >>) >>
           ELSE <<>>)

process_user_message(content, tool_uses) ==
    LET user_text == extract_user_text(content)
        outputs == IF Truthy(user_text)
                   THEN << Dict(<< <<"type", Str("user")>>, <<"text", user_text>> >>) >>
                   ELSE <<>>
    IN result_loop(Iter(content), outputs, tool_uses)

(***************************************************************************)
(* Input lines.  A line carries its raw text and what json.loads makes of  *)
(* it: the raw text of a parseable line is the compact serialisation of    *)
(* its value, followed by the line terminator.                             *)
(***************************************************************************)
JsonLine(value) == [raw |-> JsonDumps(value) \o "\n", parsed |-> TRUE, value |-> value]
BadLine(raw) == [raw |-> raw, parsed |-> FALSE, value |-> None]

RECURSIVE Repeat(_, _)
Repeat(c, n) ==
    IF n = 0 THEN ""
    ELSE LET half == Repeat(c, n \div 2)
         IN half \o half \o (IF n % 2 = 1 THEN c ELSE "")

Message(type, content) ==
    Dict(<< <<"type", Str(type)>>, <<"message", Dict(<< <<"role", Str(type)>>, <<"content", content>> >>)>> >>)

ToolUse(name, id, inp) ==
    Dict(<< <<"type", Str("tool_use")>>, <<"id", Str(id)>>, <<"name", Str(name)>>, <<"input", Dict(inp)>> >>)

ToolResult(id, rest) ==
    Dict(<< <<"type", Str("tool_result")>>, <<"tool_use_id", Str(id)>> >> \o rest)

ErrorResult(id, content) ==
    ToolResult(id, << <<"is_error", Bool(TRUE)>>, <<"content", content>> >>)

TextBlock(text) == Dict(<< <<"type", Str("text")>>, <<"text", Str(text)>> >>)

ThinkingBlock == Dict(<< <<"type", Str("thinking")>>, <<"thinking", Str("hmm")>> >>)

\* all sequences over the set S of length lo..hi
SeqsOf(S, lo, hi) == UNION {[1..n -> S] : n \in lo..hi}

(***************************************************************************)
(* The content blocks and the lines the pass is run on.                    *)
(***************************************************************************)
\* one character more than a cut
Over(limit) == Repeat("a", limit + 1)

\* tool names: one per rule of simplify_tool_use, two for the fallback
ToolNames == {"Read", "Edit", "Write", "Bash", "Grep", "Glob", "Task", "TodoWrite",
              "mcp__db__query", "WebFetch", "unknown"}

\* input payloads: nothing, short values, values one over each cut, values
\* exactly at the cuts, payloads that only the fallback rule looks at, and a
\* command of 250 characters whose last 50 differ from its first 200
ToolInputs == {
    <<>>,
    << <<"file_path", Str("/src/a.py")>>, <<"command", Str("ls")>>, <<"pattern", Str("TODO")>>,
       <<"path", Str("src")>>, <<"description", Str("look")>>, <<"subagent_type", Str("Explore")>>,
       <<"todos", List(<< Dict(<< <<"content", Str("one")>>, <<"status", Str("pending")>> >>) >>)>> >>,
    << <<"command", Str(Over(CmdLimit))>>, <<"limit", Num(10)>>, <<"pattern", Str(Over(PatternLimit))>>,
       <<"path", Str("")>>, <<"file_path", Str(Over(FallbackLimit))>>,
       <<"todos", List(<< Dict(<< <<"content", Str(Over(TodoLimit))>> >>),
                          Dict(<< <<"status", Str("pending")>> >>),
                          Dict(<< <<"content", Str("c")>> >>),
                          Dict(<< <<"content", Str("d")>> >>),
                          Dict(<< <<"content", Str("e")>> >>),
                          Dict(<< <<"content", Str("f")>> >>) >>)>> >>,
    << <<"command", Str(Repeat("a", CmdLimit))>>, <<"pattern", Str(Repeat("a", PatternLimit))>>,
       <<"todos", List(<<>>)>>, <<"url", Str(Repeat("a", FallbackLimit))>> >>,
    << <<"type", Str("x")>>, <<"prompt", Str(Over(FallbackLimit))>>, <<"id", Str("zz")>> >>,
    << <<"flag", Bool(TRUE)>>, <<"query", Num(42)>>, <<"url", Str(Over(FallbackLimit))>>,
       <<"extra", None>> >>,
    << <<"type", Str("x")>>, <<"prompt", Str("p")>> >>,
    << <<"id", Str(Over(FallbackLimit))>>, <<"timeout", Num(-1)>> >>,
    << <<"command", Str(Repeat("a", CmdLimit) \o Repeat("b", 50))>> >>
}

ToolUseBlocks ==
    {ToolUse(name, "t1", inp) : name \in ToolNames, inp \in ToolInputs}
    \cup {Dict(<< <<"type", Str("tool_use")>> >>),
          Dict(<< <<"type", Str("tool_use")>>, <<"name", Str("Bash")>> >>)}

AssistantBlocks == ToolUseBlocks \cup {
    TextBlock("  Hello  "),
    TextBlock(" \n\t"),
    Dict(<< <<"type", Str("text")>> >>),
    ThinkingBlock,
    Dict(<< <<"text", Str("untyped")>> >>),
    Str("bare")
}

\* the error flag and the payload of a tool_result block
ErrorFlags == {<<>>, << <<"is_error", Bool(FALSE)>> >>, << <<"is_error", Bool(TRUE)>> >>,
               << <<"is_error", None>> >>}

ResultPayloads == {
    <<>>,
    << <<"content", Str("boom")>> >>,
    << <<"content", Str(Over(ErrorLimit))>> >>,
    << <<"content", List(<< TextBlock(Over(ErrorLimit)), TextBlock("more") >>)>> >>,
    << <<"content", List(<< Dict(<< <<"type", Str("image")>> >>) >>)>> >>,
    << <<"content", List(<< Str(Over(ErrorLimit)) >>)>> >>,
    << <<"content", List(<< Num(5) >>)>> >>,
    << <<"content", List(<<>>)>> >>,
    << <<"content", None>> >>
}

ToolResultBlocks ==
    {ToolResult("t1", flag \o payload) : flag \in ErrorFlags, payload \in ResultPayloads}
    \cup {Dict(<< <<"type", Str("tool_result")>>, <<"is_error", Bool(TRUE)>>, <<"content", Str("boom")>> >>)}

UserBlocks == ToolResultBlocks \cup {
    Str("  hi "),
    Str(" "),
    TextBlock("typed"),
    Dict(<< <<"type", Str("text")>> >>),
    Dict(<< <<"type", Str("image")>>, <<"text", Str("no")>> >>)
}

\* the blocks that the records of several blocks are made of
CoreAssistantBlocks == {
    TextBlock("Hi "),
    ThinkingBlock,
    ToolUse("Bash", "t1", << <<"command", Str("ls")>> >>),
    ToolUse("WebFetch", "t1", << <<"prompt", Str("p")>>, <<"id", Str("zz")>> >>)
}

CoreUserBlocks == {
    Str("h"),
    TextBlock(" i "),
    ToolResult("t1", << <<"content", Str("out")>> >>),
    ErrorResult("t2", Str("boom"))
}

NonEssentialRecords == {
    Dict(<< <<"type", Str("file-history-snapshot")>>, <<"snapshot", Dict(<<>>)>> >>),
    Dict(<< <<"type", Str("queue-operation")>>, <<"operation", Str("enqueue")>> >>)
}

UnknownRecords == {
    Dict(<< <<"type", Str("summary")>>, <<"summary", Str("s")>> >>),
    Dict(<< <<"message", Dict(<< <<"content", List(<<TextBlock("Hi")>>)>> >>)>> >>),
    Dict(<< <<"type", Num(1)>> >>)
}

\* lines that json.loads rejects: text, a blank line, a cut-off last line
BadLines == {
    BadLine("not json\n"),
    BadLine("\n"),
    BadLine("{\"type\":\"assistant\"")
}

\* lines that are JSON but not an object
NonObjectLines == {
    JsonLine(List(<<>>)),
    JsonLine(Str("assistant"))
}

\* the lines of a transcript: two invocations with the same id, alone and
\* in one record, the result that answers them, typed text, records without
\* content, a dropped type, an unknown type, an unparseable line and a line
\* that is not an object
TranscriptLines == {
    JsonLine(Message("assistant", List(<< ToolUse("Bash", "t1", << <<"command", Str("ls")>> >>) >>))),
    JsonLine(Message("assistant", List(<< ToolUse("WebFetch", "t1", << <<"prompt", Str("p")>>, <<"id", Str("zz")>> >>) >>))),
    JsonLine(Message("assistant", List(<< TextBlock("Hi "),
                                          ToolUse("WebFetch", "t1", << <<"prompt", Str("p")>>, <<"id", Str("zz")>> >>),
                                          ToolUse("Bash", "t1", << <<"command", Str("ls")>> >>) >>))),
    JsonLine(Message("assistant", List(<< ThinkingBlock >>))),
    JsonLine(Message("user", List(<< Str("h") >>))),
    JsonLine(Message("user", List(<< ToolResult("t1", << <<"content", Str("out")>> >>) >>))),
    JsonLine(Message("user", List(<< ToolResult("t1", << <<"content", Str("out")>> >>), Str("h") >>))),
    JsonLine(Message("user", List(<<>>))),
    JsonLine(Dict(<< <<"type", Str("file-history-snapshot")>>, <<"snapshot", Dict(<<>>)>> >>)),
    JsonLine(Dict(<< <<"type", Str("summary")>>, <<"summary", Str("s")>> >>)),
    BadLine("not json\n"),
    JsonLine(List(<<>>))
}

\* the lines of a one-line pass: every block on its own, records of up to
\* MaxBlocks core blocks, contents that are a plain string or missing, and
\* the lines that are dropped, skipped or not an object
RecordLines ==
    {JsonLine(Message("assistant", List(<<b>>))) : b \in AssistantBlocks}
    \cup {JsonLine(Message("user", List(<<b>>))) : b \in UserBlocks}
    \cup {JsonLine(Message("assistant", List(q))) : q \in SeqsOf(CoreAssistantBlocks, 0, MaxBlocks)}
    \cup {JsonLine(Message("user", List(q))) : q \in SeqsOf(CoreUserBlocks, 0, MaxBlocks)}
    \cup {JsonLine(Message("assistant", Str("hi"))),
          JsonLine(Message("user", Str(" hi there\n"))),
          JsonLine(Message("user", List(<<Str("h"), Str("i"), Str(" there")>>))),
          JsonLine(Dict(<< <<"type", Str("assistant")>> >>)),
          JsonLine(Dict(<< <<"type", Str("user")>>, <<"message", Dict(<<>>)>> >>))}
    \cup {JsonLine(r) : r \in NonEssentialRecords \cup UnknownRecords}
    \cup BadLines \cup NonObjectLines

(***************************************************************************)
(* streamline(input_file, output_file)                                     *)
(***************************************************************************)
VARIABLES
    input_left,   \* the number of lines input_file still holds
    lines_read,   \* the lines the loop has taken from input_file, in order
    output_file,  \* the lines written to output_file, in order
    stats,        \* the five counters
    tool_uses,    \* the registry: <<id, simplified>> pairs in insertion order
    pc,           \* "loop", "returned" (input exhausted) or "raised" (uncaught exception)
    written       \* history: each written record with the number of the line it came from

vars == <<input_left, lines_read, output_file, stats, tool_uses, pc, written>>

\* the state on entry to the loop, for an input_file of n lines
Start(n) ==
    /\ input_left = n
    /\ lines_read = <<>>
    /\ output_file = <<>>
    /\ stats = [input_lines |-> 0, input_bytes |-> 0, output_lines |-> 0,
                output_bytes |-> 0, dropped_records |-> 0]
    /\ tool_uses = <<>>
    /\ pc = "loop"
    /\ written = <<>>

\* a transcript of up to MaxLines lines
Init == \E n \in 0..MaxLines : Start(n)

\* json.dumps(output, separators=(",", ":")) + "\n"
output_line(output) == JsonDumps(output) \o "\n"

RECURSIVE SumLen(_)
SumLen(q) == IF q = <<>> THEN 0 ELSE Len(Head(q)) + SumLen(Tail(q))

\* (variant) the lines held back instead of written
write_all_held(file, outputs) == file

\* (variant) the new lines put in front of the old ones
write_all_front(file, outputs) == [i \in 1..Len(outputs) |-> output_line(outputs[i])] \o file

\* for output in outputs: output_file.write(output_line)
write_all(file, outputs) == file \o [i \in 1..Len(outputs) |-> output_line(outputs[i])]

\* (variant) the line counted without its terminator
count_input_stripped(st, line) ==
    [st EXCEPT !.input_lines = @ + 1, !.input_bytes = @ + Len(line.raw) - 1]

\* stats after the line has been counted (lines 161-162)
count_input(st, line) ==
    [st EXCEPT !.input_lines = @ + 1, !.input_bytes = @ + Len(line.raw)]

\* stats after the outputs have been written (lines 192-193)
count_output(st, outputs) ==
    [st EXCEPT !.output_lines = @ + Len(outputs),
               !.output_bytes = @ + SumLen([i \in 1..Len(outputs) |-> output_line(outputs[i])])]

\* (variant) the drop not counted
count_dropped_lost(st) == st

\* stats after a dropped record (lines 173, 185)
count_dropped(st) == [st EXCEPT !.dropped_records = @ + 1]

record_type(record) == Get(record, "type", None)

\* record.get("message", {}).get("content", [])
content_of(record) == Get(Get(record, "message", Dict(<<>>)), "content", List(<<>>))

is_non_essential(record) ==
    record_type(record) \in {Str("file-history-snapshot"), Str("queue-operation")}

\* for line in input_file
Take(line) ==
    /\ pc = "loop"
    /\ input_left > 0
    /\ input_left' = input_left - 1
    /\ lines_read' = Append(lines_read, line)

\* (variant) the unparseable line counted as a dropped record
ParseFailureCounted(line) ==
    /\ Take(line)
    /\ ~line.parsed
    /\ stats' = count_dropped(count_input(stats, line))
    /\ UNCHANGED <<output_file, tool_uses, pc, written>>

\* json.loads raises JSONDecodeError: continue
ParseFailure(line) ==
    /\ Take(line)
    /\ ~line.parsed
    /\ stats' = count_input(stats, line)
    /\ UNCHANGED <<output_file, tool_uses, pc, written>>

\* the line is JSON but not an object: record.get raises AttributeError,
\* which nothing catches
UncaughtError(line) ==
    /\ Take(line)
    /\ line.parsed
    /\ ~isinstance(line.value, "dict")
    /\ stats' = count_input(stats, line)
    /\ pc' = "raised"
    /\ UNCHANGED <<output_file, tool_uses, written>>

DropNonEssential(line) ==
    /\ Take(line)
    /\ line.parsed
    /\ isinstance(line.value, "dict")
    /\ is_non_essential(line.value)
    /\ stats' = count_dropped(count_input(stats, line))
    /\ UNCHANGED <<output_file, tool_uses, pc, written>>

Emit(line, outputs) ==
    /\ output_file' = write_all(output_file, outputs)
    /\ stats' = count_output(count_input(stats, line), outputs)
    /\ written' = written \o [i \in 1..Len(outputs) |->
                                 [record |-> outputs[i], line |-> stats.input_lines + 1]]

ProcessAssistant(line) ==
    /\ Take(line)
    /\ line.parsed
    /\ isinstance(line.value, "dict")
    /\ ~is_non_essential(line.value)
    /\ record_type(line.value) = Str("assistant")
    /\ LET r == process_assistant_message(content_of(line.value), tool_uses)
       IN /\ tool_uses' = r.tool_uses
          /\ Emit(line, r.outputs)
    /\ UNCHANGED pc

ProcessUser(line) ==
    /\ Take(line)
    /\ line.parsed
    /\ isinstance(line.value, "dict")
    /\ ~is_non_essential(line.value)
    /\ record_type(line.value) = Str("user")
    /\ Emit(line, process_user_message(content_of(line.value), tool_uses))
    /\ UNCHANGED <<tool_uses, pc>>

DropUnknown(line) ==
    /\ Take(line)
    /\ line.parsed
    /\ isinstance(line.value, "dict")
    /\ ~is_non_essential(line.value)
    /\ record_type(line.value) \notin {Str("assistant"), Str("user")}
    /\ stats' = count_dropped(count_input(stats, line))
    /\ UNCHANGED <<output_file, tool_uses, pc, written>>

\* input_file is exhausted: return stats
EndOfInput ==
    /\ pc = "loop"
    /\ input_left = 0
    /\ pc' = "returned"
    /\ UNCHANGED <<input_left, lines_read, output_file, stats, tool_uses, written>>

\* a pass over a transcript: each line read is any of TranscriptLines
Next ==
    \/ \E line \in TranscriptLines : ParseFailure(line)
    \/ \E line \in TranscriptLines : UncaughtError(line)
    \/ \E line \in TranscriptLines : DropNonEssential(line)
    \/ \E line \in TranscriptLines : ProcessAssistant(line)
    \/ \E line \in TranscriptLines : ProcessUser(line)
    \/ \E line \in TranscriptLines : DropUnknown(line)
    \/ EndOfInput

Spec == Init /\ [][Next]_vars

\* a pass over a file of one line, which is any of RecordLines
InitRecord == Start(1)

NextRecord ==
    \/ \E line \in RecordLines : ParseFailure(line)
    \/ \E line \in RecordLines : UncaughtError(line)
    \/ \E line \in RecordLines : DropNonEssential(line)
    \/ \E line \in RecordLines : ProcessAssistant(line)
    \/ \E line \in RecordLines : ProcessUser(line)
    \/ \E line \in RecordLines : DropUnknown(line)
    \/ EndOfInput

SpecRecord == InitRecord /\ [][NextRecord]_vars

(***************************************************************************)
(* streamline as a function of the whole input: what a pass over the lines *)
(* builds, and how it ends.                                                *)
(***************************************************************************)
\* the state on entry to the loop
pass_start ==
    [output_file |-> <<>>,
     stats |-> [input_lines |-> 0, input_bytes |-> 0, output_lines |-> 0,
                output_bytes |-> 0, dropped_records |-> 0],
     tool_uses |-> <<>>,
     pc |-> "loop"]

\* one iteration of the loop (lines 160-193); after an uncaught exception
\* there is no further iteration
loop_body(st, line) ==
    LET counted == count_input(st.stats, line)
        record == line.value
    IN IF st.pc = "raised" THEN st
       ELSE IF ~line.parsed THEN [st EXCEPT !.stats = counted]
       ELSE IF ~isinstance(record, "dict") THEN [st EXCEPT !.stats = counted, !.pc = "raised"]
       ELSE IF is_non_essential(record) THEN [st EXCEPT !.stats = count_dropped(counted)]
       ELSE IF record_type(record) = Str("assistant")
            THEN LET r == process_assistant_message(content_of(record), st.tool_uses)
                 IN [st EXCEPT !.output_file = write_all(@, r.outputs),
                               !.stats = count_output(counted, r.outputs),
                               !.tool_uses = r.tool_uses]
            ELSE IF record_type(record) = Str("user")
                 THEN LET outputs == process_user_message(content_of(record), st.tool_uses)
                      IN [st EXCEPT !.output_file = write_all(@, outputs),
                                    !.stats = count_output(counted, outputs)]
                 ELSE [st EXCEPT !.stats = count_dropped(counted)]

RECURSIVE loop_over(_, _)
loop_over(st, lines) ==
    IF lines = <<>> THEN st ELSE loop_over(loop_body(st, Head(lines)), Tail(lines))

\* streamline(input_file, output_file) for an input_file of the given lines
streamline(lines) ==
    LET st == loop_over(pass_start, lines)
    IN IF st.pc = "raised" THEN st ELSE [st EXCEPT !.pc = "returned"]

(***************************************************************************)
(* Properties.  The helpers below read the history: which records were     *)
(* written for which line, and which blocks that line held.                *)
(***************************************************************************)
IsRecordOf(line, type) ==
    /\ line.parsed
    /\ isinstance(line.value, "dict")
    /\ record_type(line.value) = Str(type)

\* the content blocks of a line that is an assistant or user record
BlocksOf(line) == Iter(content_of(line.value))

IsBlock(b, type) == isinstance(b, "dict") /\ Get(b, "type", None) = Str(type)

\* the records written for line number n, in the order written
RecordsOf(n) ==
    LET ws == SelectSeq(written, LAMBDA w : w.line = n)
    IN [i \in 1..Len(ws) |-> ws[i].record]

OutputTypes == {Str("assistant"), Str("tool_use"), Str("result"), Str("user")}

\* the sink holds exactly the serialised history, line for line
SinkIsHistory ==
    /\ Len(output_file) = Len(written)
    /\ \A i \in 1..Len(written) : output_file[i] = output_line(written[i].record)

\* C1: every record written has a type field whose value is one of assistant,
\* tool_use, result, user, and its line in the sink starts with that field;
\* a "type" key inside a tool payload never replaces it.
C1_TypeField ==
    /\ SinkIsHistory
    /\ \A i \in 1..Len(written) :
          LET type == Get(written[i].record, "type", None)
          IN /\ type \in OutputTypes
             /\ StartsWith(Str(output_file[i]), "{\"type\":\"" \o type.v \o "\"")

\* a tool_use record was written for a block whose input payload has a "type" key
C1_Witness ==
    \E i \in 1..Len(written) :
        /\ Get(written[i].record, "type", None) = Str("tool_use")
        /\ \E k \in 1..Len(BlocksOf(lines_read[written[i].line])) :
              LET b == BlocksOf(lines_read[written[i].line])[k]
              IN IsBlock(b, "tool_use") /\ Has(Get(b, "input", Dict(<<>>)), "type")

\* C2: records derived from an earlier input line are written before the
\* records derived from a later one.
C2_LineOrder ==
    /\ SinkIsHistory
    /\ \A i, j \in 1..Len(written) : i < j => written[i].line <= written[j].line

\* two lines have been read and both have records in the sink
C2_Witness ==
    \E i, j \in 1..Len(written) : written[i].line < written[j].line

\* the blocks of a given type in line number n, in content order
BlocksOfType(n, type) == SelectSeq(BlocksOf(lines_read[n]), LAMBDA b : IsBlock(b, type))

\* the records of a given type written for line number n, in the order written
RecordsOfType(n, type) ==
    SelectSeq(RecordsOf(n), LAMBDA r : Get(r, "type", None) = Str(type))

AssistantLineNumbers == {n \in 1..Len(lines_read) : IsRecordOf(lines_read[n], "assistant")}

UserLineNumbers == {n \in 1..Len(lines_read) : IsRecordOf(lines_read[n], "user")}

\* C3: the tool_use record written for a tool_use block carries the block's
\* tool name as tool and the block's invocation id as id, whatever the tool
\* name and whatever keys the input payload has.
C3_ToolAndId ==
    \A n \in AssistantLineNumbers :
        LET blocks == BlocksOfType(n, "tool_use")
            records == RecordsOfType(n, "tool_use")
        IN /\ Len(records) = Len(blocks)
           /\ \A k \in 1..Len(blocks) :
                 /\ Has(blocks[k], "name") => Get(records[k], "tool", None) = Get(blocks[k], "name", None)
                 /\ Has(blocks[k], "id") => Get(records[k], "id", None) = Get(blocks[k], "id", None)

\* the invocation ids of the tool_use blocks in the assistant records before line n
EarlierInvocationIds(n) ==
    UNION {{Get(BlocksOfType(m, "tool_use")[k], "id", Str("")) : k \in 1..Len(BlocksOfType(m, "tool_use"))} :
           m \in {a \in AssistantLineNumbers : a < n}}

\* every tool_result block answers a tool_use block of an earlier assistant record
WellFormedInput ==
    \A n \in UserLineNumbers :
        \A k \in 1..Len(BlocksOfType(n, "tool_result")) :
            /\ Has(BlocksOfType(n, "tool_result")[k], "tool_use_id")
            /\ Get(BlocksOfType(n, "tool_result")[k], "tool_use_id", None) \in EarlierInvocationIds(n)

\* C4: on well-formed input, every result record with id X comes after a
\* tool_use record with the same id X.
C4_Correlation ==
    WellFormedInput =>
        \A j \in 1..Len(written) :
            Get(written[j].record, "type", None) = Str("result") =>
                \E i \in 1..(j - 1) :
                    /\ Get(written[i].record, "type", None) = Str("tool_use")
                    /\ Get(written[i].record, "id", None) = Get(written[j].record, "id", None)

RECURSIVE ConcatAll(_)
ConcatAll(qs) == IF qs = <<>> THEN <<>> ELSE Head(qs) \o ConcatAll(Tail(qs))

\* what an assistant record of the one block b gives
AssistantOutputsOfBlock(b) == process_assistant_message(List(<<b>>), <<>>).outputs

\* the result records that a user record of the one block b gives
ResultsOfBlock(b) ==
    SelectSeq(process_user_message(List(<<b>>), <<>>),
              LAMBDA r : Get(r, "type", None) = Str("result"))

\* the records of an assistant record are those of its blocks, block after block
C5_AssistantBlockOrder ==
    \A n \in AssistantLineNumbers :
        LET blocks == BlocksOf(lines_read[n])
        IN RecordsOf(n) = ConcatAll([k \in 1..Len(blocks) |-> AssistantOutputsOfBlock(blocks[k])])

IsTextItem(b) == isinstance(b, "str") \/ IsBlock(b, "text")

\* the positions, in the content of line n, of the blocks that the p-th record
\* written for line n derives from: all text items for the user record, the
\* answering tool_result block for a result record
UserSources(n, p) ==
    LET blocks == BlocksOf(lines_read[n])
        records == RecordsOf(n)
        rank == Cardinality({q \in 1..p : Get(records[q], "type", None) = Str("result")})
        resultAt == {k \in 1..Len(blocks) : IsBlock(blocks[k], "tool_result")}
    IN IF Get(records[p], "type", None) = Str("user")
       THEN {k \in 1..Len(blocks) : IsTextItem(blocks[k])}
       ELSE {k \in resultAt : Cardinality({m \in resultAt : m <= k}) = rank}

\* in a user record, what derives from an earlier block is not written after
\* what derives from a later block
C5_UserBlockOrder ==
    \A n \in UserLineNumbers :
        \A p, q \in 1..Len(RecordsOf(n)) :
            \A i \in UserSources(n, p), j \in UserSources(n, q) : i < j => p <= q

\* C5 as stated: within one record, assistant or user, the records written
\* keep the order of the blocks they derive from.
C5_BlockOrder == C5_AssistantBlockOrder /\ C5_UserBlockOrder

\* in a user record the one user record, if any, comes first and the result
\* records follow in the order of their tool_result blocks
C5_UserResultOrder ==
    \A n \in UserLineNumbers :
        LET blocks == BlocksOf(lines_read[n])
        IN /\ Len(RecordsOfType(n, "user")) <= 1
           /\ RecordsOf(n) = RecordsOfType(n, "user") \o RecordsOfType(n, "result")
           /\ RecordsOfType(n, "result") = ConcatAll([k \in 1..Len(blocks) |-> ResultsOfBlock(blocks[k])])

\* C5 (amended): the records of an assistant record keep the order of its
\* blocks; the result records of a user record keep the order of their
\* tool_result blocks, and the single user record is written before them
\* wherever the text blocks stand.
C5_AmendedOrder == C5_AssistantBlockOrder /\ C5_UserResultOrder

\* a user record with a tool_result block ahead of a text item has been
\* processed, and both gave a record
C5_Witness ==
    \E n \in UserLineNumbers :
        /\ Len(RecordsOfType(n, "user")) = 1
        /\ Len(RecordsOfType(n, "result")) >= 1
        /\ \E i, j \in 1..Len(BlocksOf(lines_read[n])) :
              /\ i < j
              /\ IsBlock(BlocksOf(lines_read[n])[i], "tool_result")
              /\ IsTextItem(BlocksOf(lines_read[n])[j])

RuleTools == {Str("Read"), Str("Edit"), Str("Write"), Str("Bash"), Str("Grep"), Str("Glob"),
              Str("Task"), Str("TodoWrite")}

IsMcpTool(name) == StartsWith(name, "mcp__")

IsFallbackTool(name) == name \notin RuleTools /\ ~IsMcpTool(name)

\* the key of the payload that the fallback rule captures, or "" if none
FallbackKey(inp) ==
    IF Has(inp, "file_path") THEN "file_path"
    ELSE IF Has(inp, "path") THEN "path"
    ELSE IF Has(inp, "query") THEN "query"
    ELSE IF Has(inp, "url") THEN "url"
    ELSE IF Has(inp, "id") THEN "id"
    ELSE ""

\* the cuts hold in every record written, with cmdBound the bound on cmd
TruncationBound(cmdBound) ==
    /\ \A i \in 1..Len(written) :
          LET r == written[i].record
          IN /\ Has(r, "cmd") => Len(Get(r, "cmd", None).v) <= cmdBound
             /\ (Get(r, "tool", None) = Str("Grep") /\ Has(r, "pattern"))
                    => Len(Get(r, "pattern", None).v) <= 100
             /\ Has(r, "todos") =>
                    \A k \in 1..Len(Get(r, "todos", None).v) : Len(Get(r, "todos", None).v[k].v) <= 50
             /\ Has(r, "params") =>
                    \A k \in 1..Len(Get(r, "params", None).v) : Len(Get(r, "params", None).v[k][2].v) <= 100
             /\ Has(r, "error") => Len(Get(r, "error", None).v) <= 200
    /\ \A n \in AssistantLineNumbers :
          \A k \in 1..Len(RecordsOfType(n, "tool_use")) :
              LET r == RecordsOfType(n, "tool_use")[k]
                  key == FallbackKey(Get(BlocksOfType(n, "tool_use")[k], "input", Dict(<<>>)))
              IN (IsFallbackTool(Get(r, "tool", None)) /\ key # "")
                     => Len(Get(r, key, None).v) <= 200

\* C6 as stated: cmd at most 200 characters, a Grep pattern at most 100, each
\* todos item at most 50, each params value at most 100, the fallback field
\* at most 200 and error at most 200, in every record written.
C6_TruncationBound == TruncationBound(200)

\* C6 (amended): as stated, except that cmd has at most 203 characters: the
\* first 200 of the command and the three of the "..." mark.
C6_AmendedBound == TruncationBound(203)

\* a command longer than the cut was written as a cmd of 203 characters, and
\* an error text longer than its cut as 200
C6_Witness ==
    /\ \E i \in 1..Len(written) :
          Has(written[i].record, "cmd") /\ Len(Get(written[i].record, "cmd", None).v) = 203
    /\ \E n \in AssistantLineNumbers :
          \E k \in 1..Len(BlocksOfType(n, "tool_use")) :
              Len(Get(Get(BlocksOfType(n, "tool_use")[k], "input", Dict(<<>>)), "command", Str("")).v) > 200

\* the lines read so far that parsed to a record of a type other than
\* assistant and user, a missing type included
DroppedLineNumbers ==
    {n \in 1..Len(lines_read) :
        /\ lines_read[n].parsed
        /\ isinstance(lines_read[n].value, "dict")
        /\ record_type(lines_read[n].value) \notin {Str("assistant"), Str("user")}}

PassState(file, registry, st) ==
    [output_file |-> file, tool_uses |-> registry, dropped_records |-> st.dropped_records,
     output_lines |-> st.output_lines, output_bytes |-> st.output_bytes]

\* the pass state after one more parsed line
AfterLine(ps, line) ==
    LET record == line.value
        emit(outputs, registry) ==
            [ps EXCEPT !.output_file = write_all(@, outputs),
                       !.tool_uses = registry,
                       !.output_lines = @ + Len(outputs),
                       !.output_bytes = @ + SumLen(write_all(<<>>, outputs))]
    IN IF ~isinstance(record, "dict") THEN ps
       ELSE IF record_type(record) = Str("assistant")
            THEN LET r == process_assistant_message(content_of(record), ps.tool_uses)
                 IN emit(r.outputs, r.tool_uses)
            ELSE IF record_type(record) = Str("user")
                 THEN emit(process_user_message(content_of(record), ps.tool_uses), ps.tool_uses)
                 ELSE [ps EXCEPT !.dropped_records = @ + 1]

\* the pass state after the parsed lines of a sequence, taken in order
RECURSIVE AfterLines(_, _)
AfterLines(ps, lines) ==
    IF lines = <<>> THEN ps ELSE AfterLines(AfterLine(ps, Head(lines)), Tail(lines))

EmptyPass == [output_file |-> <<>>, tool_uses |-> <<>>, dropped_records |-> 0,
              output_lines |-> 0, output_bytes |-> 0]

\* the pass has built what it would have built from the parseable lines alone
AsIfBadLinesAbsent ==
    PassState(output_file, tool_uses, stats)
        = AfterLines(EmptyPass, SelectSeq(lines_read, LAMBDA l : l.parsed))

\* the step reads a line that json.loads rejects
ReadsBadLine ==
    /\ Len(lines_read') = Len(lines_read) + 1
    /\ ~lines_read'[Len(lines_read')].parsed

\* C8: a line that is not valid JSON writes nothing, leaves dropped_records,
\* output_lines, output_bytes and the registry as they were, adds one to
\* input_lines and its length to input_bytes, and the loop goes on; what the
\* pass builds is what the parseable lines alone would have built.
C8_ParseFailureSkipped ==
    /\ [][ReadsBadLine =>
            /\ output_file' = output_file
            /\ tool_uses' = tool_uses
            /\ stats'.dropped_records = stats.dropped_records
            /\ stats'.output_lines = stats.output_lines
            /\ stats'.output_bytes = stats.output_bytes
            /\ stats'.input_lines = stats.input_lines + 1
            /\ stats'.input_bytes = stats.input_bytes + Len(lines_read'[Len(lines_read')].raw)
            /\ pc' = "loop"]_vars
    /\ []AsIfBadLinesAbsent

\* a line that did not parse was followed by a line that gave output
C8_Witness ==
    /\ Len(lines_read) = 2
    /\ ~lines_read[1].parsed
    /\ RecordsOf(2) # <<>>

\* record r has field f, and f is the empty string when the payload lacks key
PresentOrEmpty(r, f, inp, key) ==
    /\ Has(r, f)
    /\ ~Has(inp, key) => Get(r, f, None) = Str("")

\* the fields of the rules that copy one payload key to one field
PlainRuleFields(r, inp) ==
    LET tool == Get(r, "tool", None)
    IN /\ tool \in {Str("Read"), Str("Edit"), Str("Write")} => PresentOrEmpty(r, "target", inp, "file_path")
       /\ tool = Str("Bash") => PresentOrEmpty(r, "cmd", inp, "command")
       /\ tool \in {Str("Grep"), Str("Glob")} => PresentOrEmpty(r, "pattern", inp, "pattern")
       /\ tool = Str("Task") => /\ PresentOrEmpty(r, "desc", inp, "description")
                                /\ PresentOrEmpty(r, "agent", inp, "subagent_type")

\* P(record, payload) holds of every tool_use record written and the input
\* payload of the block it was written for
ForEveryToolUse(P(_, _)) ==
    \A n \in AssistantLineNumbers :
        /\ Len(RecordsOfType(n, "tool_use")) = Len(BlocksOfType(n, "tool_use"))
        /\ \A k \in 1..Len(BlocksOfType(n, "tool_use")) :
              P(RecordsOfType(n, "tool_use")[k],
                Get(BlocksOfType(n, "tool_use")[k], "input", Dict(<<>>)))

AlwaysPresent(r, inp) ==
    LET tool == Get(r, "tool", None)
    IN /\ PlainRuleFields(r, inp)
       /\ tool = Str("TodoWrite") => PresentOrEmpty(r, "todos", inp, "todos")
       /\ IsMcpTool(tool) => (Has(r, "params") /\ (inp.v = <<>> => Get(r, "params", None) = Str("")))
       /\ IsFallbackTool(tool) =>
              \/ FallbackKey(inp) = "id"
              \/ \E f \in Keys(r) \ {"type", "tool", "id"} :
                     FallbackKey(inp) = "" => Get(r, f, None) = Str("")

\* C9 as stated: every field that the rule of the tool defines is in the
\* tool_use record, as the empty string when the payload lacks its key:
\* target, cmd, pattern, desc and agent, todos, params, the fallback's field.
C9_FieldsAlwaysPresent == ForEveryToolUse(AlwaysPresent)

PresentAsTheCodeHasIt(r, inp) ==
    LET tool == Get(r, "tool", None)
        todos == Get(inp, "todos", List(<<>>)).v
    IN /\ PlainRuleFields(r, inp)
       /\ tool = Str("TodoWrite") =>
              /\ Has(r, "todos")
              /\ Len(Get(r, "todos", None).v) = Min(5, Len(todos))
              /\ \A i \in 1..Len(Get(r, "todos", None).v) :
                     ~Has(todos[i], "content") => Get(r, "todos", None).v[i] = Str("")
       /\ IsMcpTool(tool) => (Has(r, "params") /\ (inp.v = <<>> => Get(r, "params", None) = Dict(<<>>)))
       /\ IsFallbackTool(tool) =>
              IF FallbackKey(inp) = ""
              THEN Keys(r) = {"type", "tool", "id"}
              ELSE Keys(r) = {"type", "tool", "id", FallbackKey(inp)}

\* C9 (amended): target, cmd, pattern, desc and agent are always in the record
\* and are the empty string when the payload lacks their key; todos is always
\* there, the empty list when the payload has no todos, with the empty string
\* for an item without content; params is always there, the empty mapping for
\* an empty payload; the fallback adds its one field only when the payload has
\* one of the probed keys, and no field otherwise.
C9_AmendedPresence == ForEveryToolUse(PresentAsTheCodeHasIt)

\* a Read block without file_path and a fallback block without any probed key
\* have each been written as a tool_use record (in two passes of one line)
C9_Witness ==
    \E n \in AssistantLineNumbers :
        \E k \in 1..Len(BlocksOfType(n, "tool_use")) :
            LET b == BlocksOfType(n, "tool_use")[k]
            IN /\ Len(RecordsOfType(n, "tool_use")) >= k
               /\ Get(b, "name", None) = Str("Read")
               /\ ~Has(Get(b, "input", Dict(<<>>)), "file_path")

\* C10: each tool_result block gives exactly one result record, with the
\* block's tool_use_id as id and the negation of the error flag as ok; without
\* the flag there is no error field; with the flag and a plain string payload
\* error is the first 200 characters of the string.
C10_ResultRecord ==
    \A n \in UserLineNumbers :
        LET blocks == BlocksOfType(n, "tool_result")
            records == RecordsOfType(n, "result")
        IN /\ Len(records) = Len(blocks)
           /\ \A k \in 1..Len(blocks) :
                 LET b == blocks[k]
                     r == records[k]
                     flag == Has(b, "is_error") /\ Truthy(Get(b, "is_error", None))
                     payload == Get(b, "content", None)
                 IN /\ Has(b, "tool_use_id") => Get(r, "id", None) = Get(b, "tool_use_id", None)
                    /\ Get(r, "ok", None) = Bool(~flag)
                    /\ ~flag => Keys(r) = {"type", "id", "ok"}
                    /\ (flag /\ isinstance(payload, "str")) =>
                           Get(r, "error", None) = Str(SubSeq(payload.v, 1, Min(200, Len(payload.v))))

\* a flagged block with a string payload of more than 200 characters, and one
\* that is not flagged, have been written as result records
C10_Witness ==
    \E n \in UserLineNumbers :
        \E k \in 1..Len(BlocksOfType(n, "tool_result")) :
            LET b == BlocksOfType(n, "tool_result")[k]
            IN /\ Len(RecordsOfType(n, "result")) >= k
               /\ Get(b, "is_error", None) = Bool(TRUE)
               /\ isinstance(Get(b, "content", None), "str")
               /\ Len(Get(b, "content", None).v) > 200

\* the flagged tool_result blocks of the user records read, each with the
\* result record written for it
FlaggedResults ==
    UNION {{[block |-> BlocksOfType(n, "tool_result")[k], record |-> RecordsOfType(n, "result")[k]] :
               k \in {j \in 1..Len(BlocksOfType(n, "tool_result")) :
                          /\ j <= Len(RecordsOfType(n, "result"))
                          /\ Truthy(Get(BlocksOfType(n, "tool_result")[j], "is_error", Bool(FALSE)))}} :
           n \in UserLineNumbers}

EmptySequence(payload) == isinstance(payload, "list") /\ payload.v = <<>>

NeitherStringNorSequence(payload) == ~isinstance(payload, "str") /\ ~isinstance(payload, "list")

\* a sequence whose first element is a structured block without a text field
FirstBlockWithoutText(payload) ==
    /\ isinstance(payload, "list")
    /\ payload.v # <<>>
    /\ isinstance(payload.v[1], "dict")
    /\ ~Has(payload.v[1], "text")

\* a sequence whose first element is neither a structured block nor a string
FirstNeitherBlockNorString(payload) ==
    /\ isinstance(payload, "list")
    /\ payload.v # <<>>
    /\ ~isinstance(payload.v[1], "dict")
    /\ ~isinstance(payload.v[1], "str")

\* C11 as stated: a flagged tool_result block whose payload is an empty
\* sequence, a sequence whose first element is a structured block without a
\* text field, or neither a string nor a sequence, gives a result record with
\* ok false and no error field.
C11_DegradedError ==
    \A fr \in FlaggedResults :
        (/\ Has(fr.block, "content")
         /\ LET payload == Get(fr.block, "content", None)
            IN \/ EmptySequence(payload)
               \/ FirstBlockWithoutText(payload)
               \/ NeitherStringNorSequence(payload))
        => /\ Get(fr.record, "ok", None) = Bool(FALSE)
           /\ ~Has(fr.record, "error")

\* C11 (amended): a flagged tool_result block whose payload is an empty
\* sequence, a sequence whose first element is neither a structured block nor
\* a string, or neither a string nor a sequence, gives a result record with ok
\* false and no error field; when the first element is a structured block
\* without a text field the record has ok false and error, the empty string.
C11_AmendedDegraded ==
    \A fr \in FlaggedResults :
        Has(fr.block, "content") =>
            LET payload == Get(fr.block, "content", None)
            IN /\ (EmptySequence(payload) \/ FirstNeitherBlockNorString(payload)
                       \/ NeitherStringNorSequence(payload))
                   => /\ Get(fr.record, "ok", None) = Bool(FALSE)
                      /\ Keys(fr.record) = {"type", "id", "ok"}
               /\ FirstBlockWithoutText(payload)
                   => /\ Get(fr.record, "ok", None) = Bool(FALSE)
                      /\ Get(fr.record, "error", None) = Str("")

\* a flagged block whose payload is the empty sequence has been written as a
\* result record
C11_Witness ==
    \E fr \in FlaggedResults :
        /\ Has(fr.block, "content")
        /\ EmptySequence(Get(fr.block, "content", None))

\* the text that block b adds to the user text: a bare string is its own
\* text, a text block its text field, any other block nothing
TextOf(b) ==
    IF isinstance(b, "str") THEN b.v
    ELSE IF IsBlock(b, "text") /\ Has(b, "text") THEN Get(b, "text", None).v
    ELSE ""

\* the texts of the blocks one after the other, without separator
RECURSIVE TextsJoined(_)
TextsJoined(blocks) ==
    IF blocks = <<>> THEN "" ELSE TextOf(Head(blocks)) \o TextsJoined(Tail(blocks))

\* C12: for every user record at most one user record is written; its text
\* is the trimmed concatenation, without separator and in block order, of all
\* bare strings and text blocks of the content, and there is none when that is
\* empty; it is written before every result record of the same input record,
\* however text and tool_result blocks are interleaved, and the result records
\* follow in the order of their tool_result blocks.
C12_UserRecord ==
    \A n \in UserLineNumbers :
        LET blocks == BlocksOf(lines_read[n])
            text == Strip(Str(TextsJoined(blocks)))
            results == BlocksOfType(n, "tool_result")
        IN /\ RecordsOfType(n, "user")
                 = (IF text.v = "" THEN <<>>
                    ELSE << Dict(<< <<"type", Str("user")>>, <<"text", text>> >>) >>)
           /\ RecordsOf(n) = RecordsOfType(n, "user") \o RecordsOfType(n, "result")
           /\ Len(RecordsOfType(n, "result")) = Len(results)
           /\ \A k \in 1..Len(results) :
                 RecordsOfType(n, "result")[k]
                     = Merge(Dict(<< <<"type", Str("result")>> >>), process_tool_result(results[k], <<>>))

\* a user record with a tool_result block ahead of a text item has been
\* written as a user record, whose text is shorter than the concatenation by
\* the trimming, followed by a result record
C12_Witness ==
    \E n \in UserLineNumbers :
        LET blocks == BlocksOf(lines_read[n])
        IN /\ Len(RecordsOf(n)) >= 2
           /\ Get(RecordsOf(n)[1], "type", None) = Str("user")
           /\ Get(RecordsOf(n)[2], "type", None) = Str("result")
           /\ Len(Get(RecordsOf(n)[1], "text", None).v) < Len(TextsJoined(blocks))
           /\ \E i, j \in 1..Len(blocks) :
                 i < j /\ IsBlock(blocks[i], "tool_result") /\ IsTextItem(blocks[j])

\* the records that a line gives when it is the only line of a pass
LineOutputs(line) ==
    IF IsRecordOf(line, "assistant")
    THEN process_assistant_message(content_of(line.value), <<>>).outputs
    ELSE IF IsRecordOf(line, "user")
         THEN process_user_message(content_of(line.value), <<>>)
         ELSE <<>>

\* the sink already holds, in order, every record of every line read
NothingHeldBack ==
    /\ SinkIsHistory
    /\ \A n \in 1..Len(lines_read) : RecordsOf(n) = LineOutputs(lines_read[n])
    /\ \A i \in 1..Len(written) : written[i].line \in 1..Len(lines_read)

\* what is in the sink stays there, unchanged and in place
SinkOnlyGrows ==
    /\ Len(output_file') >= Len(output_file)
    /\ SubSeq(output_file', 1, Len(output_file)) = output_file

\* C13: all records of input line n are in the sink before line n+1 is read:
\* between two reads the sink holds every record of every line read so far,
\* and what it holds is final, a prefix of the sink at every later point.
C13_Streaming == [][SinkOnlyGrows]_vars /\ []NothingHeldBack

\* two lines have been read and have their records in the sink while the
\* input still holds a line
C13_Witness ==
    /\ pc = "loop"
    /\ input_left > 0
    /\ Len(lines_read) = 2
    /\ RecordsOf(1) # <<>>
    /\ RecordsOf(2) # <<>>
    /\ Len(output_file) = Len(RecordsOf(1)) + Len(RecordsOf(2))

\* the Bash blocks of the assistant records read whose payload has a command,
\* each with the tool_use record written for it
BashCommands ==
    UNION {{[command |-> Get(Get(BlocksOfType(n, "tool_use")[k], "input", Dict(<<>>)), "command", None),
             record |-> RecordsOfType(n, "tool_use")[k]] :
               k \in {j \in 1..Len(BlocksOfType(n, "tool_use")) :
                          /\ j <= Len(RecordsOfType(n, "tool_use"))
                          /\ Get(BlocksOfType(n, "tool_use")[j], "name", None) = Str("Bash")
                          /\ Has(Get(BlocksOfType(n, "tool_use")[j], "input", Dict(<<>>)), "command")}} :
           n \in AssistantLineNumbers}

\* C14: for a tool_use block named Bash, cmd is the command unchanged when
\* the command has at most 200 characters; otherwise it is the first 200
\* characters of the command followed by "...", 203 characters in all.
C14_BashRule ==
    \A bc \in BashCommands :
        LET command == bc.command.v
            cmd == Get(bc.record, "cmd", None)
        IN /\ Len(command) <= 200 => cmd = Str(command)
           /\ Len(command) > 200 =>
                 /\ cmd = Str(SubSeq(command, 1, 200) \o "...")
                 /\ Len(cmd.v) = 203

\* a Bash command of 250 characters has been written as a cmd of 203
C14_Witness ==
    \E bc \in BashCommands :
        /\ Len(bc.command.v) = 250
        /\ Len(Get(bc.record, "cmd", None).v) = 203

\* the lines read so far that have at least one record in the sink
ProducingLineNumbers == {n \in 1..Len(lines_read) : RecordsOf(n) # <<>>}

EndsWithNewline(s) == s # "" /\ SubSeq(s, Len(s), Len(s)) = "\n"

\* the counters agree with what has been read and written so far
StatsAccount ==
    /\ stats.input_lines = Len(lines_read)
    /\ stats.input_bytes = SumLen([n \in 1..Len(lines_read) |-> lines_read[n].raw])
    /\ stats.output_lines = Len(output_file)
    /\ stats.output_lines = Len(written)
    /\ stats.output_bytes = SumLen(output_file)
    /\ \A i \in 1..Len(output_file) : EndsWithNewline(output_file[i])
    /\ stats.input_lines >= stats.dropped_records + Cardinality(ProducingLineNumbers)

\* no counter goes down
CountersNonDecreasing ==
    /\ stats'.input_lines >= stats.input_lines
    /\ stats'.input_bytes >= stats.input_bytes
    /\ stats'.output_lines >= stats.output_lines
    /\ stats'.output_bytes >= stats.output_bytes
    /\ stats'.dropped_records >= stats.dropped_records

\* C15: after any prefix of the input, input_lines is the number of lines
\* read, input_bytes the sum of their raw lengths with their terminators,
\* output_lines the number of records written and output_bytes the sum of the
\* lengths of the written lines with their newline; no counter decreases, and
\* input_lines is at least dropped_records plus the number of lines that gave
\* output.
C15_StatsAccounting == [][CountersNonDecreasing]_vars /\ []StatsAccount

\* an unparseable line, a dropped line and a line that gave output have been
\* read, so that input_lines exceeds dropped_records plus the producing lines
C15_Witness ==
    /\ stats.input_lines = 3
    /\ stats.dropped_records = 1
    /\ Cardinality(ProducingLineNumbers) = 1
    /\ stats.output_lines >= 1
    /\ \E n \in 1..Len(lines_read) : ~lines_read[n].parsed

\* the text of a text block with the whitespace at both ends removed
TrimmedText(b) == RStrip(LStrip(TextOf(b)))

\* what one content block of an assistant record is to give
AssistantYield(b) ==
    IF IsBlock(b, "text")
    THEN (IF TrimmedText(b) = "" THEN <<>>
          ELSE << Dict(<< <<"type", Str("assistant")>>, <<"text", Str(TrimmedText(b))>> >>) >>)
    ELSE IF IsBlock(b, "tool_use")
         THEN << Merge(Dict(<< <<"type", Str("tool_use")>> >>), simplify_tool_use(b)) >>
         ELSE <<>>

\* the records of every assistant record read are the yields of its blocks
AssistantYields ==
    \A n \in AssistantLineNumbers :
        LET blocks == BlocksOf(lines_read[n])
        IN /\ RecordsOf(n) = ConcatAll([k \in 1..Len(blocks) |-> AssistantYield(blocks[k])])
           /\ Len(RecordsOfType(n, "assistant"))
                  = Cardinality({k \in 1..Len(blocks) :
                                    IsBlock(blocks[k], "text") /\ TrimmedText(blocks[k]) # ""})
           /\ Len(RecordsOfType(n, "tool_use")) = Len(BlocksOfType(n, "tool_use"))
           /\ Len(RecordsOf(n)) = Len(RecordsOfType(n, "assistant")) + Len(RecordsOfType(n, "tool_use"))

\* the step reads an assistant record none of whose blocks is a tool_use
\* block or a text block with text left after trimming
ReadsSilentAssistant ==
    /\ Len(lines_read') = Len(lines_read) + 1
    /\ IsRecordOf(lines_read'[Len(lines_read')], "assistant")
    /\ \A k \in 1..Len(BlocksOf(lines_read'[Len(lines_read')])) :
          AssistantYield(BlocksOf(lines_read'[Len(lines_read')])[k]) = <<>>

\* C16: in an assistant record each text block gives exactly one assistant
\* record with the trimmed text when that is not empty and nothing otherwise,
\* each tool_use block gives exactly one tool_use record, and a thinking
\* block, a block of another type or an element that is not a block gives
\* nothing; a record of only such blocks writes no line and leaves
\* dropped_records and the output counters as they were.
C16_AssistantProcessor ==
    /\ [][ReadsSilentAssistant =>
            /\ output_file' = output_file
            /\ stats'.dropped_records = stats.dropped_records
            /\ stats'.output_lines = stats.output_lines
            /\ stats'.output_bytes = stats.output_bytes]_vars
    /\ []AssistantYields

\* an assistant record of a thinking block and a text block with whitespace
\* at an end has been written as one assistant record, with the trimmed text
C16_Witness ==
    \E n \in AssistantLineNumbers :
        LET blocks == BlocksOf(lines_read[n])
        IN /\ Len(blocks) = 2
           /\ \E k \in 1..2 : IsBlock(blocks[k], "thinking")
           /\ \E k \in 1..2 : IsBlock(blocks[k], "text") /\ TrimmedText(blocks[k]) # TextOf(blocks[k])
           /\ Len(RecordsOf(n)) = 1
           /\ Get(RecordsOf(n)[1], "type", None) = Str("assistant")

\* the tool_use blocks of the assistant records read so far, in the order seen
RECURSIVE ToolUseBlocksSeen(_)
ToolUseBlocksSeen(n) ==
    IF n = 0 THEN <<>>
    ELSE ToolUseBlocksSeen(n - 1)
         \o (IF IsRecordOf(lines_read[n], "assistant") THEN BlocksOfType(n, "tool_use") ELSE <<>>)

\* the invocation id of a tool_use block, as the registry keys it
InvocationId(b) == Get(b, "id", Str(""))

RegistryKeys == {tool_uses[i][1] : i \in 1..Len(tool_uses)}

\* the registry's entry for a key it has
RegistryEntry(key) == tool_uses[CHOOSE i \in 1..Len(tool_uses) : tool_uses[i][1] = key][2]

\* the last block seen that has the invocation id
MostRecentBlock(id) ==
    LET seen == ToolUseBlocksSeen(Len(lines_read))
        last == CHOOSE i \in 1..Len(seen) :
                    /\ InvocationId(seen[i]) = id
                    /\ \A j \in (i + 1)..Len(seen) : InvocationId(seen[j]) # id
    IN seen[last]

\* the keys are the invocation ids seen, and each entry is the simplified
\* record of the most recent block with that id
RegistryTracksBlocks ==
    LET seen == ToolUseBlocksSeen(Len(lines_read))
    IN /\ RegistryKeys = {InvocationId(seen[i]) : i \in 1..Len(seen)}
       /\ Len(tool_uses) = Cardinality(RegistryKeys)
       /\ \A key \in RegistryKeys : RegistryEntry(key) = simplify_tool_use(MostRecentBlock(key))

\* the id field of each entry is the key it is stored under
RegistryIdsAreKeys ==
    \A key \in RegistryKeys : Get(RegistryEntry(key), "id", None) = key

\* no step removes an entry, and only an assistant record changes the registry
RegistryOnlyGrows ==
    /\ \A i \in 1..Len(tool_uses) : \E j \in 1..Len(tool_uses') : tool_uses'[j][1] = tool_uses[i][1]
    /\ (/\ Len(lines_read') = Len(lines_read) + 1
        /\ ~IsRecordOf(lines_read'[Len(lines_read')], "assistant"))
       => tool_uses' = tool_uses

\* C17: after any prefix of the input the registry's keys are the invocation
\* ids of the tool_use blocks seen in assistant records, each key maps to the
\* simplified record of the most recent block with that id, whose own id field
\* is the key; entries are never removed, and user records, dropped records
\* and parse failures leave the registry unchanged.
C17_Registry == [][RegistryOnlyGrows]_vars /\ [](RegistryTracksBlocks /\ RegistryIdsAreKeys)

\* keys, entries and growth of the registry, the id field of the entries aside
RegistryApartFromIds == [][RegistryOnlyGrows]_vars /\ []RegistryTracksBlocks

\* the pass over the lines read so far has built what the function gives
PassIsFunctionOfInput ==
    LET st == streamline(lines_read)
    IN /\ output_file = st.output_file
       /\ stats = st.stats
       /\ tool_uses = st.tool_uses
       /\ (pc = "raised") = (st.pc = "raised")

\* the ways to cut the lines read so far into a first and a second part, each
\* taken in both orders
TwoSequences ==
    UNION {{<<SubSeq(lines_read, 1, i), SubSeq(lines_read, i + 1, Len(lines_read))>>,
            <<SubSeq(lines_read, i + 1, Len(lines_read)), SubSeq(lines_read, 1, i)>>} :
           i \in 0..Len(lines_read)}

\* the counters of one pass plus those of another
StatsSum(a, b) ==
    [input_lines |-> a.input_lines + b.input_lines,
     input_bytes |-> a.input_bytes + b.input_bytes,
     output_lines |-> a.output_lines + b.output_lines,
     output_bytes |-> a.output_bytes + b.output_bytes,
     dropped_records |-> a.dropped_records + b.dropped_records]

\* one pass over A followed by B writes what a pass over A and a pass over B
\* write, one after the other, and counts the sum of what they count
PassesAddUp(A, B) ==
    /\ streamline(A \o B).output_file = streamline(A).output_file \o streamline(B).output_file
    /\ streamline(A \o B).stats = StatsSum(streamline(A).stats, streamline(B).stats)

\* C18: the records written for a line are a function of that line alone,
\* whatever the earlier lines, the registry and the counters; so for any two
\* line sequences A and B the output of one pass over A followed by B is the
\* output of a pass over A followed by that of a pass over B, and its
\* counters are the sums of theirs.
C18_Independence ==
    /\ PassIsFunctionOfInput
    /\ \A n \in 1..Len(lines_read) : RecordsOf(n) = LineOutputs(lines_read[n])
    /\ \A ab \in TwoSequences : PassesAddUp(ab[1], ab[2])

\* no line of the sequence is JSON that is not an object
AllRecordsOrUnparseable(lines) ==
    \A i \in 1..Len(lines) : lines[i].parsed => isinstance(lines[i].value, "dict")

\* the same for sequences of which every line either does not parse or parses
\* to an object
IndependenceOfObjectLines ==
    /\ PassIsFunctionOfInput
    /\ \A n \in 1..Len(lines_read) : RecordsOf(n) = LineOutputs(lines_read[n])
    /\ \A ab \in TwoSequences :
          AllRecordsOrUnparseable(ab[1] \o ab[2]) => PassesAddUp(ab[1], ab[2])

=============================================================================
